---- MODULE Spec2Model ----
(***************************************************************************)
(* Model of the TCP service of src/src/server.rs: the process-wide         *)
(* registry SERVERS, Server::new / Server::run / Server::stop at the level *)
(* of their lock acquisitions, and the per-connection loop Client::handle, *)
(* driven by the test client of src/tests/client.rs.                       *)
(***************************************************************************)
EXTENDS Integers, Sequences, FiniteSets, TLC

(* ------------------------------ bounds -------------------------------- *)
\* Server instances ever created in one run of the model.
MaxServers == 3
\* Largest client_count a Server::new call is still started on.
MaxCount == 3
\* Writes one peer makes on a connection.
MaxSends == 2

(* ---------------------------- universe -------------------------------- *)
Threads == {"t1", "t2"}
NoThread == "none"
\* Address strings callers pass to Server::new.
Addrs == {"127.0.0.1:9000", "localhost:9001"}
ServerIds == 1..MaxServers
NoServer == 0

\* listener.local_addr().to_string(): the textual form of the socket
\* address the OS bound, which is not the string that was resolved.
LocalAddr(a) ==
    IF a = "localhost:9001" THEN "127.0.0.1:9001" ELSE a

VARIABLES
    servers,       \* SERVERS: address string -> Arc<Server> (NoServer: no entry)
    serversLock,   \* holder of the SERVERS mutex
    nextId,        \* identity of the next Server (and listener) constructed
    is_running,    \* Server.is_running, per instance
    client_count,  \* Server.client_count, per instance
    countLock,     \* holder of each Server.client_count mutex
    local_addr,    \* listener.local_addr() of each instance
    key,           \* the string each instance was inserted under
    handle,        \* the Arc<Server> each caller thread holds
    pc,            \* position of each caller thread
    arg,           \* address argument of the Server::new call in progress
    cur,           \* the Server a call in progress works on
    pre,           \* what a stop() in progress saw under the count lock
    runPc,         \* position of the thread executing run() of each instance
    last,          \* the call that returned in the last step
    streak,        \* per address: instances returned by new since a fresh bind, no stop since
    removed,       \* per address: an entry was removed by stop()
    abs,           \* registry and counts of the calls applied one at a time
    connPc,        \* per connection: position of its peer and of its server thread
    connSrv,       \* per connection: the Server whose listener and flag it is tied to
    inbox,         \* per connection: writes of the peer not yet read by the server
    outbox,        \* per connection: writes of the server not yet read by the peer
    received,      \* per connection: the messages Client::receive returned
    sent,          \* per connection: number of writes the peer has made
    peerClosed,    \* per connection: the peer has shut its socket down
    hadBadRead,    \* per connection: a read failed to decode or had no variant
    lastH          \* the Client::handle call made in the last step

lifeVars == <<servers, serversLock, nextId, is_running, client_count, countLock,
              local_addr, key, handle, pc, arg, cur, pre, runPc, last, streak,
              removed, abs>>
connVars == <<connPc, connSrv, inbox, outbox, received, sent, peerClosed, hadBadRead>>
vars == <<lifeVars, connVars, lastH>>

ConnIds == {1, 2}

NoEvent ==
    [op |-> "none", t |-> NoThread, addr |-> "", srv |-> NoServer, res |-> "",
     preCount |-> 0, preRunning |-> FALSE, preReg |-> FALSE, preRemoved |-> FALSE,
     again |-> FALSE]

NoMsg == [kind |-> "none", ch |-> "", len |-> 0, a |-> 0, b |-> 0, from |-> 0]

NoHandle == [c |-> 0, req |-> NoMsg, wrote |-> <<>>, to |-> 0, res |-> "", bad |-> FALSE]

NoPre == [count |-> 0, running |-> FALSE, reg |-> FALSE]

(* ----------------------------- helpers -------------------------------- *)
\* A Mutex can be taken when nobody holds it.
LockFreeBroken(owner) == TRUE
LockFree(owner) == owner = NoThread

Created(s) == s < nextId

Registered(reg, s) == \E a \in Addrs : reg[a] = s

\* The listener of an instance is open while any Arc<Server> to it exists:
\* the registry entry, a caller's handle, a call in progress, a run() thread.
Alive(reg, s) ==
    /\ Created(s)
    /\ \/ Registered(reg, s)
       \/ \E t \in Threads : handle[t] = s
       \/ \E t \in Threads : pc[t] # "idle" /\ cur[t] = s
       \/ runPc[s] # "idle"

\* TcpListener::bind(addr): fails with AddrInUse while a listener is open
\* on the same socket address.
BindOk(reg, a) ==
    ~ \E s \in ServerIds : Alive(reg, s) /\ local_addr[s] = LocalAddr(a)

\* HashMap::remove(&addr): drops the entry under exactly that string.
Remove(reg, k) ==
    [a \in Addrs |-> IF a = k THEN NoServer ELSE reg[a]]

\* The count after `*count += 1`.
IncrementedSkip(c) == c
Incremented(c) == c + 1

\* `if *count == 1` of stop(): this call holds the last outstanding claim.
IsLastClaimAtZero(c) == c = 0
IsLastClaimOrSecond(c) == c <= 2
IsLastClaim(c) == c = 1

(* ------------------- the calls, run one at a time --------------------- *)
\* Server::new as one step on a state st = [servers, client_count, is_running].
SeqNew(st, a, id) ==
    IF st.servers[a] # NoServer
    THEN [st EXCEPT !.client_count[st.servers[a]] = Incremented(@)]
    ELSE IF BindOk(st.servers, a)
         THEN [st EXCEPT !.servers[a] = id,
                         !.client_count[id] = 1,
                         !.is_running[id] = FALSE]
         ELSE st

\* Server::stop as one step.
SeqStop(st, s) ==
    IF IsLastClaim(st.client_count[s])
    THEN IF st.is_running[s]
         THEN [st EXCEPT !.is_running[s] = FALSE,
                         !.servers = Remove(st.servers, local_addr[s])]
         ELSE st
    ELSE [st EXCEPT !.client_count[s] = @ - 1]

(* ------------------------------- Init --------------------------------- *)
Init ==
    /\ servers = [a \in Addrs |-> NoServer]
    /\ serversLock = NoThread
    /\ nextId = 1
    /\ is_running = [s \in ServerIds |-> FALSE]
    /\ client_count = [s \in ServerIds |-> 0]
    /\ countLock = [s \in ServerIds |-> NoThread]
    /\ local_addr = [s \in ServerIds |-> ""]
    /\ key = [s \in ServerIds |-> ""]
    /\ handle = [t \in Threads |-> NoServer]
    /\ pc = [t \in Threads |-> "idle"]
    /\ arg = [t \in Threads |-> ""]
    /\ cur = [t \in Threads |-> NoServer]
    /\ pre = [t \in Threads |-> NoPre]
    /\ runPc = [s \in ServerIds |-> "idle"]
    /\ last = NoEvent
    /\ streak = [a \in Addrs |-> <<>>]
    /\ removed = [a \in Addrs |-> FALSE]
    /\ abs = [servers |-> [a \in Addrs |-> NoServer],
              client_count |-> [s \in ServerIds |-> 0],
              is_running |-> [s \in ServerIds |-> FALSE]]
    /\ connPc = [c \in ConnIds |-> "free"]
    /\ connSrv = [c \in ConnIds |-> NoServer]
    /\ inbox = [c \in ConnIds |-> <<>>]
    /\ outbox = [c \in ConnIds |-> <<>>]
    /\ received = [c \in ConnIds |-> <<>>]
    /\ sent = [c \in ConnIds |-> 0]
    /\ peerClosed = [c \in ConnIds |-> FALSE]
    /\ hadBadRead = [c \in ConnIds |-> FALSE]
    /\ lastH = NoHandle

(* ---------------------------- Server::new ----------------------------- *)
\* SERVERS.lock().unwrap()
NewCall(t, a) ==
    /\ pc[t] = "idle"
    /\ servers[a] # NoServer \/ nextId <= MaxServers
    /\ (IF servers[a] = NoServer THEN 0 ELSE client_count[servers[a]]) < MaxCount
    /\ LockFree(serversLock)
    /\ serversLock' = t
    /\ pc' = [pc EXCEPT ![t] = "new_lookup"]
    /\ arg' = [arg EXCEPT ![t] = a]
    /\ cur' = [cur EXCEPT ![t] = NoServer]
    /\ last' = NoEvent
    /\ UNCHANGED <<servers, nextId, is_running, client_count, countLock, local_addr,
                   key, handle, pre, runPc, streak, removed, abs>>
    /\ UNCHANGED connVars /\ lastH' = NoHandle

\* servers_lock.get(addr)
NewLookup(t) ==
    /\ pc[t] = "new_lookup"
    /\ IF servers[arg[t]] # NoServer
       THEN /\ cur' = [cur EXCEPT ![t] = servers[arg[t]]]
            /\ pc' = [pc EXCEPT ![t] = "new_count_lock"]
       ELSE /\ cur' = cur
            /\ pc' = [pc EXCEPT ![t] = "new_bind"]
    /\ last' = NoEvent
    /\ UNCHANGED <<servers, serversLock, nextId, is_running, client_count, countLock,
                   local_addr, key, handle, arg, pre, runPc, streak, removed, abs>>
    /\ UNCHANGED connVars /\ lastH' = NoHandle

\* server.client_count.lock(); *count += 1; return Ok(Arc::clone(server))
NewExisting(t) ==
    LET s == cur[t]
        a == arg[t]
    IN  /\ pc[t] = "new_count_lock"
        /\ LockFree(countLock[s])
        /\ client_count' = [client_count EXCEPT ![s] = Incremented(@)]
        /\ serversLock' = NoThread
        /\ handle' = [handle EXCEPT ![t] = s]
        /\ pc' = [pc EXCEPT ![t] = "idle"]
        /\ cur' = [cur EXCEPT ![t] = NoServer]
        /\ last' = [NoEvent EXCEPT !.op = "new", !.t = t, !.addr = a, !.srv = s,
                                   !.res = "Ok", !.preReg = TRUE,
                                   !.preCount = client_count[s],
                                   !.preRunning = is_running[s],
                                   !.preRemoved = removed[a]]
        /\ streak' = [streak EXCEPT ![a] =
                        IF Len(@) \in 1..2 THEN Append(@, s) ELSE @]
        /\ abs' = SeqNew(abs, a, nextId)
        /\ arg' = [arg EXCEPT ![t] = ""]
        /\ UNCHANGED <<servers, nextId, is_running, countLock, local_addr, key,
                       pre, runPc, removed>>
        /\ UNCHANGED connVars /\ lastH' = NoHandle

\* Where a caller is after `return Err(e)` of either error arm of the bind:
\* out of the call, with no second bind.
AfterBindErrorRetry == "new_bind"
AfterBindError == "idle"

\* TcpListener::bind(addr), then the insert, or the error return
NewBind(t) ==
    LET a == arg[t]
        s == nextId
    IN  /\ pc[t] = "new_bind"
        /\ IF BindOk(servers, a)
           THEN /\ servers' = [servers EXCEPT ![a] = s]
                /\ nextId' = nextId + 1
                /\ is_running' = [is_running EXCEPT ![s] = FALSE]
                /\ client_count' = [client_count EXCEPT ![s] = 1]
                /\ local_addr' = [local_addr EXCEPT ![s] = LocalAddr(a)]
                /\ key' = [key EXCEPT ![s] = a]
                /\ handle' = [handle EXCEPT ![t] = s]
                /\ last' = [NoEvent EXCEPT !.op = "new", !.t = t, !.addr = a,
                                           !.srv = s, !.res = "Ok",
                                           !.preRemoved = removed[a]]
                /\ streak' = [streak EXCEPT ![a] = <<s>>]
           ELSE /\ last' = [NoEvent EXCEPT !.op = "new", !.t = t, !.addr = a,
                                           !.res = "AddrInUse",
                                           !.preRemoved = removed[a]]
                /\ UNCHANGED <<servers, nextId, is_running, client_count,
                               local_addr, key, handle, streak>>
        /\ abs' = SeqNew(abs, a, nextId)
        /\ serversLock' = NoThread
        /\ pc' = [pc EXCEPT ![t] = IF BindOk(servers, a) THEN "idle"
                                                          ELSE AfterBindError]
        /\ arg' = [arg EXCEPT ![t] = IF pc'[t] = "idle" THEN "" ELSE a]
        /\ UNCHANGED <<countLock, cur, pre, runPc, removed>>
        /\ UNCHANGED connVars /\ lastH' = NoHandle

(* ---------------------------- Server::stop ---------------------------- *)
\* A stop() call that returned: what it found under the count lock, and
\* whether the call that returned just before it was a stop() of the same
\* caller on the same instance that found the count at 1.
StopEvent(t, s, p) ==
    [NoEvent EXCEPT !.op = "stop", !.t = t, !.addr = key[s], !.srv = s, !.res = "Ok",
                    !.preCount = p.count, !.preRunning = p.running, !.preReg = p.reg,
                    !.again = (last.op = "stop" /\ last.t = t /\ last.srv = s
                                  /\ last.preCount = 1)]

\* self.client_count.lock(), the test of *count and of is_running, and
\* either the decrement, the warning, or the store of false
StopCall(t) ==
    LET s == handle[t]
        p == [count |-> client_count[s], running |-> is_running[s],
              reg |-> Registered(servers, s)]
    IN  /\ pc[t] = "idle"
        /\ s # NoServer
        /\ LockFree(countLock[s])
        /\ streak' = [streak EXCEPT ![key[s]] = <<>>]
        /\ IF IsLastClaim(client_count[s])
           THEN IF is_running[s]
                THEN /\ is_running' = [is_running EXCEPT ![s] = FALSE]
                     /\ countLock' = [countLock EXCEPT ![s] = t]
                     /\ pc' = [pc EXCEPT ![t] = "stop_reg_lock"]
                     /\ cur' = [cur EXCEPT ![t] = s]
                     /\ pre' = [pre EXCEPT ![t] = p]
                     /\ last' = NoEvent
                     /\ UNCHANGED <<client_count, abs>>
                ELSE /\ last' = StopEvent(t, s, p)
                     /\ abs' = SeqStop(abs, s)
                     /\ UNCHANGED <<is_running, client_count, countLock, pc, cur, pre>>
           ELSE /\ client_count' = [client_count EXCEPT ![s] = @ - 1]
                /\ last' = StopEvent(t, s, p)
                /\ abs' = SeqStop(abs, s)
                /\ UNCHANGED <<is_running, countLock, pc, cur, pre>>
        /\ UNCHANGED <<servers, serversLock, nextId, local_addr, key, handle, arg,
                       runPc, removed>>
        /\ UNCHANGED connVars /\ lastH' = NoHandle

\* SERVERS.lock(); servers_lock.remove(&local_addr); both guards dropped
StopRemove(t) ==
    LET s == cur[t]
        k == local_addr[s]
    IN  /\ pc[t] = "stop_reg_lock"
        /\ LockFree(serversLock)
        /\ servers' = Remove(servers, k)
        /\ removed' = [a \in Addrs |->
                         removed[a] \/ (a = k /\ servers[a] # NoServer)]
        /\ countLock' = [countLock EXCEPT ![s] = NoThread]
        /\ pc' = [pc EXCEPT ![t] = "idle"]
        /\ cur' = [cur EXCEPT ![t] = NoServer]
        /\ pre' = [pre EXCEPT ![t] = NoPre]
        /\ last' = StopEvent(t, s, pre[t])
        /\ streak' = [streak EXCEPT ![key[s]] = <<>>]
        /\ abs' = SeqStop(abs, s)
        /\ UNCHANGED <<serversLock, nextId, is_running, client_count, local_addr,
                       key, handle, arg, runPc>>
        /\ UNCHANGED connVars /\ lastH' = NoHandle

\* The caller lets go of its Arc<Server>.
DropHandle(t) ==
    /\ pc[t] = "idle"
    /\ handle[t] # NoServer
    /\ handle' = [handle EXCEPT ![t] = NoServer]
    /\ last' = NoEvent
    /\ UNCHANGED <<servers, serversLock, nextId, is_running, client_count, countLock,
                   local_addr, key, pc, arg, cur, pre, runPc, streak, removed, abs>>
    /\ UNCHANGED connVars /\ lastH' = NoHandle

(* ----------------------------- Server::run ---------------------------- *)
\* A holder starts run() of its Server on a thread of its own.
SpawnRun(t) ==
    /\ pc[t] = "idle"
    /\ handle[t] # NoServer
    /\ runPc[handle[t]] = "idle"
    /\ runPc' = [runPc EXCEPT ![handle[t]] = "start"]
    /\ last' = NoEvent
    /\ UNCHANGED <<servers, serversLock, nextId, is_running, client_count, countLock,
                   local_addr, key, handle, pc, arg, cur, pre, streak, removed, abs>>
    /\ UNCHANGED connVars /\ lastH' = NoHandle

\* self.is_running.store(true); self.listener.set_nonblocking(true)
RunStart(s) ==
    /\ runPc[s] = "start"
    /\ is_running' = [is_running EXCEPT ![s] = TRUE]
    /\ abs' = [abs EXCEPT !.is_running[s] = TRUE]
    /\ runPc' = [runPc EXCEPT ![s] = "check"]
    /\ last' = NoEvent
    /\ UNCHANGED <<servers, serversLock, nextId, client_count, countLock, local_addr,
                   key, handle, pc, arg, cur, pre, streak, removed>>
    /\ UNCHANGED connVars /\ lastH' = NoHandle

\* while self.is_running.load(): into the loop body, or `Ok(())`
RunCheck(s) ==
    /\ runPc[s] = "check"
    /\ IF is_running[s]
       THEN /\ runPc' = [runPc EXCEPT ![s] = "accept"]
            /\ last' = NoEvent
       ELSE /\ runPc' = [runPc EXCEPT ![s] = "idle"]
            /\ last' = [NoEvent EXCEPT !.op = "run", !.srv = s, !.res = "Ok"]
    /\ UNCHANGED <<servers, serversLock, nextId, is_running, client_count, countLock,
                   local_addr, key, handle, pc, arg, cur, pre, streak, removed, abs>>
    /\ UNCHANGED connVars /\ lastH' = NoHandle

\* Where run() goes after an accept that gave no connection.
AfterAcceptFailureReturn(kind) == "idle"
AfterAcceptFailure(kind) == "check"

\* self.listener.accept() gives WouldBlock (then the sleep) or another error
RunAcceptFails(s, kind) ==
    /\ runPc[s] = "accept"
    /\ runPc' = [runPc EXCEPT ![s] = AfterAcceptFailure(kind)]
    /\ last' = IF AfterAcceptFailure(kind) = "idle"
               THEN [NoEvent EXCEPT !.op = "run", !.srv = s, !.res = kind]
               ELSE NoEvent
    /\ UNCHANGED <<servers, serversLock, nextId, is_running, client_count, countLock,
                   local_addr, key, handle, pc, arg, cur, pre, streak, removed, abs>>
    /\ UNCHANGED connVars /\ lastH' = NoHandle

(* --------------------------- the messages ----------------------------- *)
MaxI32 == 2147483647
MinI32 == -MaxI32 - 1

\* `let mut buffer = [0; 512]` of Client::handle
BufSize == 512

\* A string is len copies of the byte ch.
Contents ==
    {[ch |-> "A", len |-> 1], [ch |-> "B", len |-> 1], [ch |-> "A", len |-> 600]}

AddPairs == {<<MaxI32, 1>>, <<MinI32, -1>>, <<2, 3>>}

EchoMsg(x) == [NoMsg EXCEPT !.kind = "echo", !.ch = x.ch, !.len = x.len]
AddMsg(p) == [NoMsg EXCEPT !.kind = "add", !.a = p[1], !.b = p[2]]
\* Bytes that are no envelope, and bytes that are an envelope with no variant.
RawMsg(k) == [NoMsg EXCEPT !.kind = k, !.len = 4]

\* What a peer can write: the two requests of Client::send, and raw bytes.
Sendable ==
    {EchoMsg(x) : x \in Contents} \cup {AddMsg(p) : p \in AddPairs}
        \cup {RawMsg(k) : k \in {"junk", "unknown"}}

\* The short Echo requests.
ShortEchoes == {EchoMsg(x) : x \in {y \in Contents : y.len = 1}}

\* Bytes of a length-delimited field: tag, length varint, payload.
Delimited(n) == 1 + (IF n < 128 THEN 1 ELSE 2) + n

\* Size of the encoded envelope. An empty string is left out of its message;
\* an int32 field takes its tag and at most ten varint bytes.
EncodedLen(m) ==
    CASE m.kind = "echo" -> Delimited(IF m.len = 0 THEN 0 ELSE Delimited(m.len))
      [] m.kind = "add"  -> Delimited(22)
      [] OTHER           -> m.len

\* self.stream.read(&mut buffer): what one read takes of the first unread
\* write (one write is one read while it fits the buffer), and what it leaves.
ReadTaken(m) ==
    IF EncodedLen(m) > BufSize
    THEN [m EXCEPT !.kind = "truncated", !.len = BufSize]
    ELSE m

ReadLeft(m) ==
    IF EncodedLen(m) > BufSize
    THEN <<[m EXCEPT !.kind = "fragment", !.len = EncodedLen(m) - BufSize]>>
    ELSE <<>>

\* ClientMessage::decode: a request, "none" for an envelope without a
\* variant, "error" for bytes that are no envelope. An envelope cut off by
\* the buffer is no envelope, and so is the run of string bytes left of it.
Decode(bytes) ==
    CASE bytes.kind \in {"echo", "add"} -> bytes.kind
      [] bytes.kind = "unknown"         -> "none"
      [] OTHER                          -> "error"

\* `add_request.a + add_request.b` on i32 where overflow checks are off.
WrappingAdd(a, b) ==
    IF b > 0 /\ a > MaxI32 - b THEN (a - MaxI32 - 1) + (b - MaxI32 - 1)
    ELSE IF b < 0 /\ a < MinI32 - b THEN (a + MaxI32 + 1) + (b + MaxI32 + 1)
    ELSE a + b

Overflows(a, b) ==
    \/ b > 0 /\ a > MaxI32 - b
    \/ b < 0 /\ a < MinI32 - b

\* What the `+` of line 62 can do: its value, or the panic of a build with
\* overflow checks (the default of the dev and test profiles).
AddOutcomes(a, b) ==
    {[panic |-> FALSE, result |-> WrappingAdd(a, b)]}
        \cup (IF Overflows(a, b) THEN {[panic |-> TRUE, result |-> 0]} ELSE {})

EchoResp(m, c) == [kind |-> "echo", ch |-> m.ch, len |-> m.len, result |-> 0, for |-> m.from]
AddResp(m, r) == [kind |-> "add", ch |-> "", len |-> 0, result |-> r, for |-> m.from]

(* ----------------------------- the peer ------------------------------- *)
\* Client::connect: the connection is queued on an open listener.
ClientConnect(c, s) ==
    /\ connPc[c] = "free"
    /\ Alive(servers, s)
    /\ connPc' = [connPc EXCEPT ![c] = "pending"]
    /\ connSrv' = [connSrv EXCEPT ![c] = s]
    /\ lastH' = NoHandle
    /\ last' = NoEvent
    /\ UNCHANGED <<servers, serversLock, nextId, is_running, client_count, countLock,
                   local_addr, key, handle, pc, arg, cur, pre, runPc, streak, removed,
                   abs, inbox, outbox, received, sent, peerClosed, hadBadRead>>

\* Client::send: stream.write_all(&buffer)
ClientSend(c, m) ==
    /\ connPc[c] \notin {"free"}
    /\ ~ peerClosed[c]
    /\ sent[c] < MaxSends
    /\ sent' = [sent EXCEPT ![c] = @ + 1]
    /\ inbox' = [inbox EXCEPT ![c] = Append(@, [m EXCEPT !.from = c])]
    /\ lastH' = NoHandle
    /\ last' = NoEvent
    /\ UNCHANGED <<servers, serversLock, nextId, is_running, client_count, countLock,
                   local_addr, key, handle, pc, arg, cur, pre, runPc, streak, removed,
                   abs, connPc, connSrv, outbox, received, peerClosed, hadBadRead>>

\* Client::receive: one read of the stream, decoded
ClientReceive(c) ==
    /\ ~ peerClosed[c]
    /\ outbox[c] # <<>>
    /\ received' = [received EXCEPT ![c] = Append(@, Head(outbox[c]))]
    /\ outbox' = [outbox EXCEPT ![c] = Tail(@)]
    /\ lastH' = NoHandle
    /\ last' = NoEvent
    /\ UNCHANGED <<servers, serversLock, nextId, is_running, client_count, countLock,
                   local_addr, key, handle, pc, arg, cur, pre, runPc, streak, removed,
                   abs, connPc, connSrv, inbox, sent, peerClosed, hadBadRead>>

\* Client::disconnect: stream.shutdown(Shutdown::Both)
ClientDisconnect(c) ==
    /\ connPc[c] # "free"
    /\ ~ peerClosed[c]
    /\ peerClosed' = [peerClosed EXCEPT ![c] = TRUE]
    /\ lastH' = NoHandle
    /\ last' = NoEvent
    /\ UNCHANGED <<servers, serversLock, nextId, is_running, client_count, countLock,
                   local_addr, key, handle, pc, arg, cur, pre, runPc, streak, removed,
                   abs, connPc, connSrv, inbox, outbox, received, sent, hadBadRead>>

(* ------------------------- accepted connections ----------------------- *)
\* self.listener.accept() gives a stream: thread::spawn of its handler
RunAcceptOk(s, c) ==
    /\ runPc[s] = "accept"
    /\ connPc[c] = "pending"
    /\ connSrv[c] = s
    /\ connPc' = [connPc EXCEPT ![c] = "check"]
    /\ runPc' = [runPc EXCEPT ![s] = "check"]
    /\ lastH' = NoHandle
    /\ last' = NoEvent
    /\ UNCHANGED <<servers, serversLock, nextId, is_running, client_count, countLock,
                   local_addr, key, handle, pc, arg, cur, pre, streak, removed, abs,
                   connSrv, inbox, outbox, received, sent, peerClosed, hadBadRead>>

\* while is_running.load(): the test the handler thread makes between two
\* calls of client.handle()
ConnCheck(c) ==
    /\ connPc[c] = "check"
    /\ connPc' = [connPc EXCEPT ![c] =
                    IF is_running[connSrv[c]] THEN "read" ELSE "stopped"]
    /\ lastH' = NoHandle
    /\ last' = NoEvent
    /\ UNCHANGED <<servers, serversLock, nextId, is_running, client_count, countLock,
                   local_addr, key, handle, pc, arg, cur, pre, runPc, streak, removed,
                   abs, connSrv, inbox, outbox, received, sent, peerClosed, hadBadRead>>

\* The socket a handler writes its reply to: its own stream.
ReplySocketFirst(c) == 1
ReplySocket(c) == c

\* Where the handler thread is after a read that gave no request.
AfterBadReadBreak == "ended"
AfterBadRead == "check"

\* write_all and flush can fail once the peer has shut the socket down.
WriteResults(c) == IF peerClosed[c] THEN {"Ok", "Err"} ELSE {"Ok"}

\* Where the handler thread is after write_all or flush failed: handle()
\* returns the error through `?`, and the thread breaks out of its loop.
AfterWriteErrorRetry == "check"
AfterWriteError == "ended"

\* The reply of a request is written when write_all and flush succeed:
\* between its read and its write handle() does not look at the flag.
ReplyWrittenWhileRunning(c, w) == w = "Ok" /\ is_running[connSrv[c]]
ReplyWritten(c, w) == w = "Ok"

\* One call of Client::handle whose read returns bytes.
Handle(c) ==
    LET m     == Head(inbox[c])
        bytes == ReadTaken(m)
        d     == Decode(bytes)
        rest  == ReadLeft(m) \o Tail(inbox[c])
        to    == ReplySocket(c)
        Reply(resp, w) ==
            IF ReplyWritten(c, w)
            THEN /\ outbox' = [outbox EXCEPT ![to] = Append(@, resp)]
                 /\ connPc' = [connPc EXCEPT ![c] = "check"]
                 /\ lastH' = [NoHandle EXCEPT !.c = c, !.req = m, !.to = to,
                                              !.wrote = <<resp>>, !.res = "Ok",
                                              !.bad = hadBadRead[c]]
            ELSE /\ outbox' = outbox
                 /\ connPc' = [connPc EXCEPT ![c] = AfterWriteError]
                 /\ lastH' = [NoHandle EXCEPT !.c = c, !.req = m, !.res = "Err",
                                              !.bad = hadBadRead[c]]
    IN  /\ connPc[c] = "read"
        /\ inbox[c] # <<>>
        /\ inbox' = [inbox EXCEPT ![c] = rest]
        /\ CASE d = "echo" ->
                  /\ \E w \in WriteResults(c) : Reply(EchoResp(bytes, c), w)
                  /\ UNCHANGED hadBadRead
             [] d = "add" ->
                  /\ \E o \in AddOutcomes(bytes.a, bytes.b) :
                        IF o.panic
                        THEN /\ outbox' = outbox
                             /\ connPc' = [connPc EXCEPT ![c] = "panicked"]
                             /\ lastH' = [NoHandle EXCEPT !.c = c, !.req = m,
                                                          !.res = "panic",
                                                          !.bad = hadBadRead[c]]
                        ELSE \E w \in WriteResults(c) : Reply(AddResp(bytes, o.result), w)
                  /\ UNCHANGED hadBadRead
             [] OTHER ->
                  /\ outbox' = outbox
                  /\ connPc' = [connPc EXCEPT ![c] = AfterBadRead]
                  /\ hadBadRead' = [hadBadRead EXCEPT ![c] = TRUE]
                  /\ lastH' = [NoHandle EXCEPT !.c = c, !.req = m, !.res = d,
                                               !.bad = hadBadRead[c]]
        /\ last' = NoEvent
        /\ UNCHANGED <<servers, serversLock, nextId, is_running, client_count,
                       countLock, local_addr, key, handle, pc, arg, cur, pre, runPc,
                       streak, removed, abs, connSrv, received, sent, peerClosed>>

\* Where the handler thread is after a read of 0 bytes: handle() returns
\* Err(ConnectionAborted), on which the thread breaks out of its loop (the
\* `return Ok(())` below the inner test is never reached).
AfterZeroReadOk == "check"
AfterZeroRead == "ended"

\* One call of Client::handle whose read returns 0 bytes.
HandleEof(c) ==
    /\ connPc[c] = "read"
    /\ inbox[c] = <<>>
    /\ peerClosed[c]
    /\ connPc' = [connPc EXCEPT ![c] = AfterZeroRead]
    /\ lastH' = [NoHandle EXCEPT !.c = c, !.res = "ConnectionAborted",
                                 !.bad = hadBadRead[c]]
    /\ last' = NoEvent
    /\ UNCHANGED <<servers, serversLock, nextId, is_running, client_count, countLock,
                   local_addr, key, handle, pc, arg, cur, pre, runPc, streak, removed,
                   abs, connSrv, inbox, outbox, received, sent, peerClosed, hadBadRead>>

\* The steps of the peers of connections C, writing messages of M, and of
\* the handler threads of these connections, while the peers stay connected.
Talk(C, M) ==
    \/ \E c \in C, s \in ServerIds : ClientConnect(c, s)
    \/ \E c \in C, m \in M : ClientSend(c, m)
    \/ \E c \in C : ClientReceive(c)
    \/ \E c \in C, s \in ServerIds : RunAcceptOk(s, c)
    \/ \E c \in C : ConnCheck(c)
    \/ \E c \in C : Handle(c)

\* The peers of connections C disconnect, and the handlers read that.
Close(C) ==
    \/ \E c \in C : ClientDisconnect(c)
    \/ \E c \in C : HandleEof(c)

(* ------------------------------- Next --------------------------------- *)
\* The steps of caller threads T using addresses A, and of the run() threads.
Life(T, A) ==
    \/ \E t \in T, a \in A : NewCall(t, a)
    \/ \E t \in T : NewLookup(t)
    \/ \E t \in T : NewExisting(t)
    \/ \E t \in T : NewBind(t)
    \/ \E t \in T : StopCall(t)
    \/ \E t \in T : StopRemove(t)
    \/ \E t \in T : DropHandle(t)
    \/ \E t \in T : SpawnRun(t)
    \/ \E s \in ServerIds : RunStart(s)
    \/ \E s \in ServerIds : RunCheck(s)
    \/ \E s \in ServerIds, kind \in {"WouldBlock", "Other"} : RunAcceptFails(s, kind)

Next == Life(Threads, Addrs)

\* The next step of the Server::new or stop() call that thread t is in.
CallStep(t) ==
    \/ NewLookup(t)
    \/ NewExisting(t)
    \/ NewBind(t)
    \/ StopRemove(t)

Spec == Init /\ [][Next]_vars

\* A thread that executes run() keeps being scheduled: the step its loop is
\* at (the test of the flag, the return of accept) is eventually taken.
RunThreadStep(s) ==
    \/ RunStart(s)
    \/ RunCheck(s)
    \/ \E kind \in {"WouldBlock", "Other"} : RunAcceptFails(s, kind)
    \/ \E c \in ConnIds : RunAcceptOk(s, c)

\* Peers of connections C connect and are accepted; they write nothing.
Arrivals(C) ==
    \/ \E c \in C, s \in ServerIds : ClientConnect(c, s)
    \/ \E c \in C, s \in ServerIds : RunAcceptOk(s, c)
    \/ \E c \in C : ConnCheck(c)

\* One address, shared by the two callers, and one peer connecting to it.
NextOneAddr == Life(Threads, {"127.0.0.1:9000"}) \/ Arrivals({1})

FairSpec ==
    Init /\ [][NextOneAddr]_vars /\ \A s \in ServerIds : WF_vars(RunThreadStep(s))

\* The state reached by Server::new("127.0.0.1:9000") on thread t1, run()
\* started on a thread of its own, and the first store of the running flag.
InitServing ==
    /\ servers = [a \in Addrs |-> IF a = "127.0.0.1:9000" THEN 1 ELSE NoServer]
    /\ serversLock = NoThread
    /\ nextId = 2
    /\ is_running = [s \in ServerIds |-> s = 1]
    /\ client_count = [s \in ServerIds |-> IF s = 1 THEN 1 ELSE 0]
    /\ countLock = [s \in ServerIds |-> NoThread]
    /\ local_addr = [s \in ServerIds |-> IF s = 1 THEN "127.0.0.1:9000" ELSE ""]
    /\ key = [s \in ServerIds |-> IF s = 1 THEN "127.0.0.1:9000" ELSE ""]
    /\ handle = [t \in Threads |-> IF t = "t1" THEN 1 ELSE NoServer]
    /\ pc = [t \in Threads |-> "idle"]
    /\ arg = [t \in Threads |-> ""]
    /\ cur = [t \in Threads |-> NoServer]
    /\ pre = [t \in Threads |-> NoPre]
    /\ runPc = [s \in ServerIds |-> IF s = 1 THEN "check" ELSE "idle"]
    /\ last = NoEvent
    /\ streak = [a \in Addrs |-> IF a = "127.0.0.1:9000" THEN <<1>> ELSE <<>>]
    /\ removed = [a \in Addrs |-> FALSE]
    /\ abs = [servers |-> servers,
              client_count |-> client_count,
              is_running |-> is_running]
    /\ connPc = [c \in ConnIds |-> "free"]
    /\ connSrv = [c \in ConnIds |-> NoServer]
    /\ inbox = [c \in ConnIds |-> <<>>]
    /\ outbox = [c \in ConnIds |-> <<>>]
    /\ received = [c \in ConnIds |-> <<>>]
    /\ sent = [c \in ConnIds |-> 0]
    /\ peerClosed = [c \in ConnIds |-> FALSE]
    /\ hadBadRead = [c \in ConnIds |-> FALSE]
    /\ lastH = NoHandle

\* The accept loop of the Server.
AcceptLoop ==
    \/ \E s \in ServerIds : RunCheck(s)
    \/ \E s \in ServerIds, kind \in {"WouldBlock", "Other"} : RunAcceptFails(s, kind)

\* The stop() of the holder of the Server.
Stopping ==
    \/ StopCall("t1")
    \/ StopRemove("t1")

\* One connection to a serving Server, its peer writing any message.
NextConn == AcceptLoop \/ Stopping \/ Talk({1}, Sendable) \/ Close({1})

ConnSpec == InitServing /\ [][NextConn]_vars

\* Two connections to a serving Server, their peers writing short Echo requests.
NextPair == AcceptLoop \/ Stopping \/ Talk(ConnIds, ShortEchoes)

PairSpec == InitServing /\ [][NextPair]_vars

\* One Echo request, as short as they come.
OneEcho == {EchoMsg([ch |-> "A", len |-> 1])}

\* Two connections to a serving Server whose peers write that request and
\* may close their sockets at any time.
NextPairClose == AcceptLoop \/ Stopping \/ Talk(ConnIds, OneEcho) \/ Close(ConnIds)

PairCloseSpec == InitServing /\ [][NextPairClose]_vars

\* One holder: the only Server::new call of the run, made by thread t1.
FirstNew ==
    /\ nextId = 1
    /\ NewCall("t1", "127.0.0.1:9000")

\* No stop() has been called on the Server of the holder.
NotStopped ==
    /\ handle["t1"] # NoServer
    /\ streak[key[handle["t1"]]] # <<>>

\* The holder starts run() on a thread of its own, once.
StartRun == NotStopped /\ SpawnRun("t1")

\* The holder calls stop(), once, at any point after that.
StopOnce == NotStopped /\ runPc[handle["t1"]] # "idle" /\ StopCall("t1")

\* run() on one thread and one stop() on another, with one peer.
NextRace ==
    \/ FirstNew
    \/ NewLookup("t1")
    \/ NewBind("t1")
    \/ StartRun
    \/ \E s \in ServerIds : RunStart(s)
    \/ StopOnce
    \/ StopRemove("t1")
    \/ AcceptLoop
    \/ Talk({1}, OneEcho)

RaceSpec == Init /\ [][NextRace]_vars

(* ======================= registry and lifecycle ======================= *)

\* C1: two Server::new calls on one address, the first of which bound the
\* listener, with no stop() on that Server in between, return the same
\* instance (so the listener was bound once), which stays registered under
\* the address with client_count exactly 2.
C1_SecondAcquireShares ==
    \A a \in Addrs :
        Len(streak[a]) = 2 =>
            /\ streak[a][2] = streak[a][1]
            /\ servers[a] = streak[a][1]
            /\ client_count[streak[a][1]] = 2

C1_Witness ==
    \E a \in Addrs :
        /\ Len(streak[a]) = 2
        /\ last.op = "new" /\ last.addr = a /\ last.preReg /\ last.preCount = 1

\* C2: a stop() that found client_count = 2 on a registered, running Server
\* returns with client_count = 1, the running flag still true and the
\* registry still mapping the address to that Server.
C2_StopAtTwoOnlyDecrements ==
    (last.op = "stop" /\ last.preCount = 2 /\ last.preRunning /\ last.preReg) =>
        /\ client_count[last.srv] = 1
        /\ is_running[last.srv]
        /\ servers[last.addr] = last.srv

C2_Witness ==
    /\ last.op = "stop" /\ last.preCount = 2 /\ last.preRunning /\ last.preReg
    /\ client_count[last.srv] = 1

\* C3 (as claimed): every stop() that found client_count = 1 on a registered
\* Server, whatever its lifecycle state, returns with the running flag false
\* and no registry entry left for that Server.
C3_LastStopAlwaysRemoves ==
    (last.op = "stop" /\ last.preCount = 1 /\ last.preReg) =>
        /\ ~ is_running[last.srv]
        /\ ~ Registered(servers, last.srv)

\* C4 (as claimed): a Server::new on an address whose entry was removed by
\* stop() and that has no entry now succeeds with a fresh Server
\* (client_count 1, not running), also while handles to the removed one exist.
C4_RebindAfterRemoval ==
    (last.op = "new" /\ last.preRemoved /\ ~ last.preReg) =>
        /\ last.res = "Ok"
        /\ last.srv = nextId - 1
        /\ servers[last.addr] = last.srv
        /\ client_count[last.srv] = 1
        /\ ~ is_running[last.srv]

\* C5: under every interleaving of the lock-level steps of Server::new and
\* Server::stop, the registry and every Server's client_count are those that
\* the calls give when run one at a time, each at the step it returns.
C5_Linearizable ==
    /\ servers = abs.servers
    /\ \A s \in ServerIds : Created(s) => client_count[s] = abs.client_count[s]

C5_Witness ==
    /\ last.op = "new" /\ last.res = "Ok"
    /\ \E t \in Threads : pc[t] = "stop_reg_lock"


(* ============================ accept loop ============================= *)

\* C6: once the running flag is false while run() is in its accept loop,
\* run() eventually returns Ok (the loop thread being scheduled fairly); and
\* run() returns only from the test of the flag, with the flag false and
\* with Ok: neither WouldBlock nor another accept error ends it.
C6_RunReturnsWhenFlagCleared ==
    /\ \A s \in ServerIds :
          (runPc[s] \in {"check", "accept"} /\ ~ is_running[s])
              ~> (last.op = "run" /\ last.srv = s /\ last.res = "Ok")
    /\ [][\A s \in ServerIds :
            (runPc[s] # "idle" /\ runPc'[s] = "idle") =>
                /\ runPc[s] = "check"
                /\ ~ is_running[s]
                /\ last'.op = "run" /\ last'.srv = s /\ last'.res = "Ok"]_vars

C6_Witness ==
    /\ last.op = "run" /\ last.res = "Ok"
    /\ ~ is_running[last.srv]
    /\ runPc[last.srv] = "idle"

(* ============================ connections ============================= *)

\* a + b reduced modulo 2^32 into the int32 range, by 16-bit halves.
Mod32Sum(a, b) ==
    LET lo  == (a % 65536) + (b % 65536)
        hi  == (a \div 65536) + (b \div 65536) + (lo \div 65536)
        hiw == ((hi + 32768) % 65536) - 32768
    IN  hiw * 65536 + (lo % 65536)

\* C7 (as claimed): every AddRequest{a, b} a connection reads yields, unless
\* the write fails with an I/O error, exactly one AddResponse, with result
\* a + b reduced modulo 2^32 into the int32 range, and the connection goes on.
C7_AddWraps ==
    (lastH.req.kind = "add" /\ lastH.res # "Err") =>
        /\ lastH.res = "Ok"
        /\ Len(lastH.wrote) = 1
        /\ lastH.wrote[1].kind = "add"
        /\ lastH.wrote[1].result = Mod32Sum(lastH.req.a, lastH.req.b)
        /\ connPc[lastH.c] = "check"

\* C8 (as claimed): every Echo request with content s written to a
\* connection yields, unless the write of the reply fails with an I/O error,
\* exactly one Echo response, with content s.
C8_EchoAnswered ==
    (lastH.req.kind = "echo" /\ lastH.res # "Err") =>
        /\ Len(lastH.wrote) = 1
        /\ lastH.wrote[1].kind = "echo"
        /\ lastH.wrote[1].ch = lastH.req.ch
        /\ lastH.wrote[1].len = lastH.req.len

\* C9: with two connections open on one Server, every response is written
\* to the socket its request was read from: what a peer finds on its socket
\* or has received answers its own requests only, and a handler that reads
\* Echo s writes Echo s to its own socket and nothing to the other one.
C9_NoCrossTalk ==
    /\ [](\A c \in ConnIds :
            /\ \A i \in 1..Len(outbox[c]) : outbox[c][i].for = c
            /\ \A i \in 1..Len(received[c]) : received[c][i].for = c)
    /\ [][\A c \in ConnIds :
            (connPc[c] = "read" /\ connPc'[c] # "read" /\ inbox[c] # <<>>) =>
                /\ \A d \in ConnIds \ {c} : outbox'[d] = outbox[d]
                /\ Head(inbox[c]).kind = "echo" =>
                      /\ Len(outbox'[c]) = Len(outbox[c]) + 1
                      /\ outbox'[c][Len(outbox'[c])].kind = "echo"
                      /\ outbox'[c][Len(outbox'[c])].ch = Head(inbox[c]).ch]_vars

C9_Witness ==
    /\ connPc[1] \in {"check", "read"} /\ connPc[2] \in {"check", "read"}
    /\ connSrv[1] = connSrv[2]
    /\ received[1] # <<>> /\ received[1][1].ch = "A"
    /\ received[2] # <<>> /\ received[2][1].ch = "B"

\* C10: a read whose bytes fail to decode, or decode to an envelope with no
\* variant, writes nothing and leaves the handler thread at its loop test;
\* and on a connection that had such a read, an Echo request that a later
\* read delivers whole is answered on that connection by exactly the Echo
\* response with its content, unless the write fails with an I/O error.
C10_BadReadContinues ==
    [][\A c \in ConnIds :
        (connPc[c] = "read" /\ connPc'[c] # "read" /\ inbox[c] # <<>>) =>
            LET m == Head(inbox[c])
                fits == EncodedLen(m) <= BufSize
            IN  /\ (~ fits \/ m.kind \in {"junk", "unknown", "fragment"}) =>
                      /\ outbox' = outbox
                      /\ connPc'[c] = "check"
                      /\ hadBadRead'[c]
                /\ (hadBadRead[c] /\ m.kind = "echo" /\ fits) =>
                      \/ /\ connPc'[c] = "check"
                         /\ outbox' = [outbox EXCEPT ![c] =
                               Append(@, [kind |-> "echo", ch |-> m.ch, len |-> m.len,
                                          result |-> 0, for |-> c])]
                      \/ /\ peerClosed[c]
                         /\ connPc'[c] = "ended"
                         /\ outbox' = outbox]_vars

C10_Witness ==
    /\ lastH.bad /\ lastH.req.kind = "echo" /\ lastH.res = "Ok"
    /\ lastH.wrote # <<>>
    /\ connPc[lastH.c] = "check"

\* C11: when the bind made by Server::new for an address that has no
\* registry entry fails, the call returns that error from the same attempt,
\* with no handle and no second bind, and the registry, the count and the
\* flag of every Server, and the set of Servers created are what they were.
C11_BindErrorLeavesRegistry ==
    [][\A t \in Threads :
        (pc[t] = "new_bind" /\ ~ BindOk(servers, arg[t])
            /\ serversLock = t /\ serversLock' # t) =>
            /\ pc'[t] = "idle"
            /\ last'.op = "new" /\ last'.t = t /\ last'.res = "AddrInUse"
            /\ last'.srv = NoServer
            /\ handle' = handle
            /\ servers' = servers /\ servers[arg[t]] = NoServer
            /\ client_count' = client_count
            /\ is_running' = is_running
            /\ nextId' = nextId]_vars

C11_Witness ==
    /\ last.op = "new" /\ last.res = "AddrInUse"
    /\ servers[last.addr] = NoServer
    /\ pc[last.t] = "idle"
    /\ \E s \in ServerIds : Created(s) /\ client_count[s] >= 1

\* C12: a read of 0 bytes (the peer has closed and nothing is left to read)
\* ends the handler loop of that connection whatever the running flag is,
\* with nothing written; and a handler that has ended never reads from or
\* writes to its socket again.
C12_ZeroReadEndsConnection ==
    [][\A c \in ConnIds :
        /\ (connPc[c] = "read" /\ inbox[c] = <<>> /\ peerClosed[c]
                /\ connPc'[c] # "read") =>
              /\ connPc'[c] = "ended"
              /\ outbox' = outbox
        /\ connPc[c] = "ended" =>
              /\ connPc'[c] = "ended"
              /\ inbox'[c] = inbox[c]
              /\ outbox'[c] = outbox[c]]_vars

C12_Witness ==
    /\ lastH.res = "ConnectionAborted"
    /\ lastH.c \in ConnIds
    /\ connPc[lastH.c] = "ended"
    /\ is_running[connSrv[lastH.c]]

\* C13 (as claimed): the client_count of every registered Server is the
\* number of Server::new calls that returned it less the number of stop()
\* calls made on it since its entry was created: the count is 1 when the
\* entry is created by the first of these new calls, and while the entry
\* stays, every new call that returns the Server adds exactly one to it,
\* every stop() call that returns takes exactly one from it, and no other
\* step changes it.
C13_CountIsAcquiresLessStops ==
    [][\A s \in ServerIds :
        LET newReturned  == last'.op = "new" /\ last'.srv = s /\ last'.res = "Ok"
            stopReturned == last'.op = "stop" /\ last'.srv = s
        IN  /\ (~ Registered(servers, s) /\ Registered(servers', s)) =>
                  (newReturned /\ client_count'[s] = 1)
            /\ (Registered(servers, s) /\ Registered(servers', s)) =>
                  client_count'[s] = client_count[s]
                                        + (IF newReturned THEN 1 ELSE 0)
                                        - (IF stopReturned THEN 1 ELSE 0)]_vars

\* C14: whatever calls of Server::new, run() and stop() have been made,
\* also stop() calls on a handle beyond the new calls that returned it, the
\* client_count of every Server that has a registry entry is at least 1.
C14_CountAtLeastOne ==
    \A a \in Addrs :
        servers[a] # NoServer => client_count[servers[a]] >= 1

\* Two stop() calls in a row on one handle that both found the count at 1,
\* so more stops than new calls, and the entry is still there.
C14_Witness ==
    /\ last.op = "stop" /\ last.again /\ last.preCount = 1
    /\ Registered(servers, last.srv)
    /\ client_count[last.srv] = 1

\* C15 (as claimed): once the last stop() has removed a Server from the
\* registry, its accept loop takes no further socket from the listener and
\* starts no further handler thread, wherever the loop was between its test
\* of the flag and its accept() when stop() ran, and whatever is called on
\* a handle to the removed Server afterwards.
C15_NoAcceptAfterRemoval ==
    [][\A s \in ServerIds, c \in ConnIds :
        (Created(s) /\ removed[key[s]] /\ ~ Registered(servers, s)
            /\ connSrv[c] = s /\ connPc[c] = "pending") =>
            connPc'[c] = "pending"]_vars

\* C16: a step of stop() changes nothing but the count, the flag and the
\* registry: no connection's socket, unread bytes or handler thread. A
\* handler leaves its loop because of the flag only at its loop test,
\* between two calls of handle(); and a call of handle() whose read has
\* begun runs to its end whatever the flag has become: a request that is
\* read whole and has a reply (Echo, or AddRequest whose sum does not
\* overflow) gets it written, on a socket the peer has not closed, and the
\* handler is back at its loop test.
C16_StopLeavesConnections ==
    [][/\ (\E t \in Threads :
              \/ pc[t] = "idle" /\ pc'[t] = "stop_reg_lock"
              \/ pc[t] = "stop_reg_lock" /\ pc'[t] = "idle"
              \/ last'.op = "stop") =>
              /\ UNCHANGED connVars
              /\ UNCHANGED <<nextId, local_addr, key, handle, runPc>>
       /\ \A c \in ConnIds :
              /\ (connPc[c] # "stopped" /\ connPc'[c] = "stopped") =>
                    (connPc[c] = "check" /\ ~ is_running[connSrv[c]])
              /\ (connPc[c] = "read" /\ connPc'[c] # "read" /\ inbox[c] # <<>>
                      /\ ~ peerClosed[c]) =>
                    LET m == Head(inbox[c])
                    IN  (/\ EncodedLen(m) <= BufSize
                         /\ \/ m.kind = "echo"
                            \/ m.kind = "add" /\ ~ Overflows(m.a, m.b)) =>
                            /\ connPc'[c] = "check"
                            /\ Len(outbox'[c]) = Len(outbox[c]) + 1
                            /\ outbox'[c][Len(outbox'[c])].kind = m.kind]_vars

\* A handle() call that wrote its reply after stop() had cleared the flag
\* and removed the Server.
C16_Witness ==
    /\ lastH.res = "Ok" /\ lastH.wrote # <<>>
    /\ lastH.c \in ConnIds
    /\ ~ is_running[connSrv[lastH.c]]
    /\ ~ Registered(servers, connSrv[lastH.c])
    /\ connPc[lastH.c] = "check"
    /\ Len(outbox[lastH.c]) >= 1

\* C17: a handle() call that fails with an I/O error (the write of a reply
\* to a socket the peer has closed, or the read that finds the connection
\* gone) ends the handler of that connection and nothing else: the reply is
\* not written and the call is not made again, the Server's flag, count and
\* registry entry and the position of its accept loop are what they were,
\* the other connection's handler, unread bytes and replies are untouched,
\* and the other connection's requests are answered as before.
C17_IoErrorEndsOneConnection ==
    [][\A c \in ConnIds :
        LET failed == connPc[c] = "read" /\ connPc'[c] # "read"
                        /\ \/ inbox[c] = <<>>
                           \/ /\ inbox[c] # <<>>
                              /\ Head(inbox[c]).kind = "echo"
                              /\ EncodedLen(Head(inbox[c])) <= BufSize
                              /\ outbox'[c] = outbox[c]
        IN  /\ failed =>
                  /\ peerClosed[c]
                  /\ connPc'[c] = "ended"
                  /\ outbox' = outbox
                  /\ is_running' = is_running
                  /\ client_count' = client_count
                  /\ servers' = servers
                  /\ runPc' = runPc
                  /\ \A d \in ConnIds \ {c} :
                        connPc'[d] = connPc[d] /\ inbox'[d] = inbox[d]
            /\ connPc[c] = "ended" =>
                  /\ connPc'[c] = "ended"
                  /\ outbox'[c] = outbox[c]
                  /\ \A d \in ConnIds \ {c} :
                        (connPc[d] = "read" /\ connPc'[d] # "read"
                            /\ inbox[d] # <<>> /\ ~ peerClosed[d]) =>
                            /\ connPc'[d] = "check"
                            /\ Len(outbox'[d]) = Len(outbox[d]) + 1]_vars

\* One connection ended on a failed write (its request was read and nothing
\* was written for it), the Server is still registered and running with its
\* accept loop going, and the other connection has just been answered.
C17_Witness ==
    \E c, d \in ConnIds :
        /\ c # d
        /\ connPc[c] = "ended" /\ connSrv[c] = connSrv[d]
        /\ sent[c] = 1 /\ inbox[c] = <<>> /\ outbox[c] = <<>> /\ received[c] = <<>>
        /\ lastH.c = d /\ lastH.res = "Ok" /\ lastH.wrote # <<>>
        /\ is_running[connSrv[c]] /\ Registered(servers, connSrv[c])
        /\ client_count[connSrv[c]] = 1
        /\ runPc[connSrv[c]] \in {"check", "accept"}

\* C18 (as claimed): for every address string, the key the last stop() of a
\* running Server removes from the registry is the key Server::new inserted
\* the Server under, so that after that stop() the registry has no entry
\* under the string that was passed to new.
C18_RemovesUnderInsertKey ==
    (last.op = "stop" /\ last.preCount = 1 /\ last.preRunning /\ last.preReg) =>
        /\ local_addr[last.srv] = key[last.srv]
        /\ servers[key[last.srv]] = NoServer

\* C19 (as claimed): no interleaving of a Server::new on an address with a
\* stop() on the Server at that address deadlocks; both calls return. Its
\* finite part: while calls are in progress, one of them can take its next
\* step (only a step of a call in progress releases a lock).
C19_NewAndStopReturn ==
    (\E t \in Threads : pc[t] # "idle") =>
        \E u \in Threads : pc[u] # "idle" /\ ENABLED CallStep(u)

\* C20 (as claimed): with one holder, run() started on one thread and
\* stop() called once from another, run() returns and the registry ends
\* with no entry for the address, wherever stop() falls, also before run()
\* has stored the flag. Its finite part: once that stop() has returned and
\* run() is in its loop, the flag is clear and the entry is gone (no step is
\* left that would clear the one or remove the other).
C20_StopOnceEndsRun ==
    \A s \in ServerIds :
        (/\ Created(s) /\ handle["t1"] = s
         /\ streak[key[s]] = <<>> /\ pc["t1"] = "idle"
         /\ runPc[s] \in {"check", "accept"}) =>
            /\ ~ is_running[s]
            /\ ~ Registered(servers, s)
====
